---- MODULE Spec2Model ----
(***************************************************************************)
(* A model of ndk-build's apk.rs: the staged APK pipeline                  *)
(* (ApkConfig::create_apk -> UnalignedApk -> UnsignedApk -> Apk), the      *)
(* library stager (UnalignedApk::add_lib) and the device operations of     *)
(* Apk (reverse_port_forwarding, install, start, uidof).                   *)
(*                                                                         *)
(* Strings and paths are sequences of one-character strings, so that       *)
(* join, file_name, with_extension, replace, lines, split_once,            *)
(* strip_prefix and parse are computed the way the library computes them.  *)
(* A u32 is represented by its canonical decimal numeral (TLC's integers   *)
(* are 32-bit signed and cannot hold every u32).                           *)
(* Option<T> is a sequence of length 0 (None) or 1 (Some).                 *)
(***************************************************************************)
EXTENDS Integers, Sequences, FiniteSets, TLC

(* ------------------------- string literals of apk.rs ------------------- *)
S_lib == <<"l", "i", "b">>
S_dwarf == <<"d", "w", "a", "r", "f">>
S_so == <<"s", "o">>
S_unaligned_apk == <<"-", "u", "n", "a", "l", "i", "g", "n", "e", "d", ".", "a", "p", "k">>
S_dot_apk == <<".", "a", "p", "k">>
S_package == <<"p", "a", "c", "k", "a", "g", "e">>
S_f == <<"-", "f">>
S_F == <<"-", "F">>
S_M == <<"-", "M">>
S_manifest_xml == <<"A", "n", "d", "r", "o", "i", "d", "M", "a", "n", "i", "f", "e", "s", "t", ".", "x", "m", "l">>
S_I == <<"-", "I">>
S_0 == <<"-", "0">>
S_S == <<"-", "S">>
S_A == <<"-", "A">>
S_add == <<"a", "d", "d">>
S_v == <<"-", "v">>
S_4 == <<"4">>
S_sign == <<"s", "i", "g", "n">>
S_ks == <<"-", "-", "k", "s">>
S_ks_pass == <<"-", "-", "k", "s", "-", "p", "a", "s", "s">>
S_pass == <<"p", "a", "s", "s", ":">>
S_reverse == <<"r", "e", "v", "e", "r", "s", "e">>
S_install == <<"i", "n", "s", "t", "a", "l", "l">>
S_r == <<"-", "r">>
S_shell == <<"s", "h", "e", "l", "l">>
S_am == <<"a", "m">>
S_start == <<"s", "t", "a", "r", "t">>
S_a == <<"-", "a">>
S_action_main == <<"a", "n", "d", "r", "o", "i", "d", ".", "i", "n", "t", "e", "n", "t", ".", "a", "c", "t", "i", "o", "n", ".", "M", "A", "I", "N">>
S_n == <<"-", "n">>
S_native_activity == <<"/", "a", "n", "d", "r", "o", "i", "d", ".", "a", "p", "p", ".", "N", "a", "t", "i", "v", "e", "A", "c", "t", "i", "v", "i", "t", "y">>
S_pm == <<"p", "m">>
S_list == <<"l", "i", "s", "t">>
S_U == <<"-", "U">>
S_package_colon == <<"p", "a", "c", "k", "a", "g", "e", ":">>
S_uid_colon == <<"u", "i", "d", ":">>
S_strip_debug == <<"-", "-", "s", "t", "r", "i", "p", "-", "d", "e", "b", "u", "g">>
S_only_keep_debug == <<"-", "-", "o", "n", "l", "y", "-", "k", "e", "e", "p", "-", "d", "e", "b", "u", "g">>
S_add_gnu_debuglink == <<"-", "-", "a", "d", "d", "-", "g", "n", "u", "-", "d", "e", "b", "u", "g", "l", "i", "n", "k", "=">>
U32_MAX == <<"4", "2", "9", "4", "9", "6", "7", "2", "9", "5">>
S_empty == <<>>

(* ------------------------------ str / String --------------------------- *)
None == <<>>
Some(x) == <<x>>

\* the characters of s from position i on
Drop(s, i) == SubSeq(s, i, Len(s))

\* str::strip_prefix
StripPrefix(s, p) ==
    IF Len(s) >= Len(p) /\ SubSeq(s, 1, Len(p)) = p
    THEN Some(Drop(s, Len(p) + 1))
    ELSE None

\* positions of the characters of s that satisfy being equal to c
Positions(s, c) == {i \in 1..Len(s) : s[i] = c}

Min(S) == CHOOSE x \in S : \A y \in S : x <= y
Max(S) == CHOOSE x \in S : \A y \in S : x >= y

\* str::split_once(c): split at the first occurrence of c
SplitOnce(s, c) ==
    IF Positions(s, c) = {} THEN None
    ELSE LET i == Min(Positions(s, c))
         IN Some(<<SubSeq(s, 1, i - 1), Drop(s, i + 1)>>)

\* str::replace(from, to) for a one-character pattern
Replace(s, from, to) == [i \in 1..Len(s) |-> IF s[i] = from THEN to ELSE s[i]]

\* one line of str::lines: a single trailing "\r" is removed
TrimCr(l) == IF Len(l) > 0 /\ l[Len(l)] = "\r" THEN SubSeq(l, 1, Len(l) - 1) ELSE l

\* str::lines: split at "\n"; no line is produced for the empty remainder
\* after the last "\n"
RECURSIVE Lines(_)
Lines(s) ==
    IF s = <<>> THEN <<>>
    ELSE IF Positions(s, "\n") = {} THEN <<TrimCr(s)>>
    ELSE LET i == Min(Positions(s, "\n"))
         IN <<TrimCr(SubSeq(s, 1, i - 1))>> \o Lines(Drop(s, i + 1))

Digits == <<"0", "1", "2", "3", "4", "5", "6", "7", "8", "9">>
IsDigit(c) == \E i \in 1..10 : Digits[i] = c
DigitVal(c) == (CHOOSE i \in 1..10 : Digits[i] = c) - 1

\* a numeral without its leading zeros ("0" for zero)
RECURSIVE Canonical(_)
Canonical(d) == IF Len(d) > 1 /\ d[1] = "0" THEN Canonical(Drop(d, 2)) ELSE d

\* a < b or a = b, for canonical numerals of the same length
RECURSIVE NumeralLeq(_, _)
NumeralLeq(a, b) ==
    IF a = <<>> THEN TRUE
    ELSE IF DigitVal(a[1]) # DigitVal(b[1]) THEN DigitVal(a[1]) < DigitVal(b[1])
    ELSE NumeralLeq(Drop(a, 2), Drop(b, 2))

FitsU32(n) == Len(n) < Len(U32_MAX) \/ (Len(n) = Len(U32_MAX) /\ NumeralLeq(n, U32_MAX))

\* <u32 as FromStr>::from_str: an optional "+", then one or more decimal
\* digits, value at most u32::MAX.  Some(canonical numeral) or None (Err).
ParseU32(s) ==
    LET d == IF Len(s) > 0 /\ s[1] = "+" THEN Drop(s, 2) ELSE s
    IN IF d = <<>> \/ \E i \in 1..Len(d) : ~IsDigit(d[i]) THEN None
       ELSE IF FitsU32(Canonical(d)) THEN Some(Canonical(d)) ELSE None

(* ------------------------------ std::path ------------------------------ *)
\* host is "unix" or "windows": the platform the program is compiled for
Hosts == {"unix", "windows"}

\* std::path::is_separator
IsSep(host, c) == c = "/" \/ (host = "windows" /\ c = "\\")

\* std::path::MAIN_SEPARATOR
MainSep(host) == IF host = "windows" THEN "\\" ELSE "/"

HasRoot(host, p) == Len(p) > 0 /\ IsSep(host, p[1])

\* Path::join (PathBuf::push): a rooted b replaces a; otherwise b is appended
\* after a separator, which is added unless a is empty or already ends in one
Join(host, a, b) ==
    IF HasRoot(host, b) THEN b
    ELSE IF a = <<>> THEN b
    ELSE IF IsSep(host, a[Len(a)]) THEN a \o b
    ELSE a \o <<MainSep(host)>> \o b

\* the position at which the final component of p begins (p does not end in
\* a separator)
FileNameStart(host, p) ==
    LET seps == {i \in 1..Len(p) : IsSep(host, p[i])}
    IN IF seps = {} THEN 1 ELSE Max(seps) + 1

\* Path::file_name().unwrap(), for a path whose final component is a normal
\* name
FileName(host, p) == Drop(p, FileNameStart(host, p))

\* Path::file_stem: the name up to its last ".", the whole name when it has
\* no "." or its only "." is the first character
FileStem(name) ==
    LET dots == Positions(name, ".")
    IN IF dots = {} \/ Max(dots) = 1 THEN name ELSE SubSeq(name, 1, Max(dots) - 1)

\* Path::with_extension(ext), ext not empty
WithExtension(host, p, ext) ==
    SubSeq(p, 1, FileNameStart(host, p) - 1)
        \o FileStem(FileName(host, p)) \o <<".">> \o ext

\* Path::extension: what follows the last "." of the file name; None when
\* the name has no "." or its only "." is the first character
Extension(host, p) ==
    LET name == FileName(host, p)
        dots == Positions(name, ".")
    IN IF dots = {} \/ Max(dots) = 1 THEN None ELSE Some(Drop(name, Max(dots) + 1))

(* ------------------------- collaborators (not in apk.rs) --------------- *)
\* Target: the CPU architectures, and Target::android_abi
Targets == {"Arm64V8a", "X86"}
android_abi(target) ==
    IF target = "Arm64V8a"
    THEN <<"a", "r", "m", "6", "4", "-", "v", "8", "a">>
    ELSE <<"x", "8", "6">>

\* Ndk::android_jar: the platform definitions handed to aapt
android_jar == <<"a", "n", "d", "r", "o", "i", "d", ".", "j", "a", "r">>

(* ------------------------------ ApkConfig ------------------------------ *)
StripConfig == {"Default", "Strip", "Split"}

\* ApkConfig::unaligned_apk
unaligned_apk(host, c) == Join(host, c.build_dir, c.apk_name \o S_unaligned_apk)

\* as apk, the container being aligned in place
apk_in_place(host, c) == unaligned_apk(host, c)

\* ApkConfig::apk
apk(host, c) == Join(host, c.build_dir, c.apk_name \o S_dot_apk)

(* ----------------------- external tool invocations --------------------- *)
\* What one Command::status()/output() call can come to: the process ran and
\* exited zero, it ran and exited non-zero, or it could not be spawned (the
\* io::Error that `?` returns).
Outcomes == {"exit0", "exit1", "spawn_err"}

\* a Command: the program, its working directory (<<>>: inherited), the
\* device adb was asked for ("n/a" for the other tools) and its arguments
Cmd(tool, cwd, device, args) == [tool |-> tool, cwd |-> cwd, device |-> device, args |-> args]

\* ApkConfig::build_tool: the tool, run in the build directory
build_tool(c, tool) == Cmd(tool, c.build_dir, "n/a", <<>>)

\* Ndk::adb(device_serial)
adb(device_serial) == Cmd("adb", <<>>, device_serial, <<>>)

\* Command::arg
Arg(cmd, a) == [cmd EXCEPT !.args = Append(@, a)]

\* The error a finished invocation makes the caller return ("" for none):
\* `?` on the io::Error, then CmdFailed unless the exit status is success.
StatusError(outcome) ==
    IF outcome = "spawn_err" THEN "IoError"
    ELSE IF outcome = "exit1" THEN "CmdFailed"
    ELSE ""

\* an entry of the invocation log of a call
Ran(cmd, outcome) == [cmd |-> cmd, outcome |-> outcome]

\* What one step "find the tool, run it, check its status" can come to: the
\* three outcomes of the invocation, or the tool could not be found (the `?`
\* on build_tool / Ndk::adb), in which case nothing is invoked.
StepOutcomes == Outcomes \cup {"no_tool"}

StepError(outcome) == IF outcome = "no_tool" THEN "ToolNotFound" ELSE StatusError(outcome)

\* the first step that does not exit zero (0: every step exits zero)
FirstStop(outs, n) ==
    LET bad == {i \in 1..n : outs[i] # "exit0"}
    IN IF bad = {} THEN 0 ELSE Min(bad)

\* as Run, every command being invoked whatever the ones before it came to
RunNoStop(cmds, outs) ==
    LET n == Len(cmds)
        k == FirstStop(outs, n)
    IN [log |-> [i \in 1..n |-> Ran(cmds[i], outs[i])],
        err |-> IF k = 0 THEN "" ELSE StepError(outs[k])]

\* The idiom `if !cmd.status()?.success() { return Err(CmdFailed(cmd)) }`
\* applied to cmds in order: the first step that does not exit zero ends the
\* call with its error, and nothing after it is invoked.
Run(cmds, outs) ==
    LET n == Len(cmds)
        k == FirstStop(outs, n)
        issued == IF k = 0 THEN n ELSE IF outs[k] = "no_tool" THEN k - 1 ELSE k
    IN [log |-> [i \in 1..issued |-> Ran(cmds[i], outs[i])],
        err |-> IF k = 0 THEN "" ELSE StepError(outs[k])]

\* the orders in which a HashSet / HashMap of the elements S may be iterated
Orders(S) ==
    {o \in [1..Cardinality(S) -> S] : \A i, j \in 1..Cardinality(S) : o[i] = o[j] => i = j}

(* ------------------------- ApkConfig::create_apk ----------------------- *)
\* the aapt arguments for the optional parts of the configuration
CompressionArgs(c) == IF c.disable_aapt_compression THEN <<S_0, S_empty>> ELSE <<>>
ResourceArgs(c) == IF c.resources = None THEN <<>> ELSE <<S_S, c.resources[1]>>
AssetArgs(c) == IF c.assets = None THEN <<>> ELSE <<S_A, c.assets[1]>>

aapt_package(host, c) ==
    [build_tool(c, "aapt") EXCEPT !.args =
        <<S_package, S_f, S_F, unaligned_apk(host, c), S_M, S_manifest_xml, S_I, android_jar>>
            \o CompressionArgs(c) \o ResourceArgs(c) \o AssetArgs(c)]

\* fs: whether create_dir_all and the manifest write succeed;
\* out: what finding and running aapt comes to.
\* made: whether an UnalignedApk (with an empty pending_libs) is returned.
create_apk(host, c, fs, out) ==
    IF fs # "ok" THEN [log |-> <<>>, tag |-> "IoError", made |-> FALSE]
    ELSE LET r == Run(<<aapt_package(host, c)>>, <<out>>)
         IN [log |-> r.log,
             tag |-> IF r.err = "" THEN "Ok" ELSE r.err,
             made |-> r.err = ""]

(* ------------------------- UnalignedApk::add_lib ----------------------- *)
\* as lib_path, with the whole source path in place of its file name
lib_path_whole(host, path, target) ==
    Join(host, Join(host, S_lib, android_abi(target)), path)

\* lib/<abi>/<file name>, joined with the host's separator
lib_path(host, path, target) ==
    Join(host, Join(host, S_lib, android_abi(target)), FileName(host, path))

\* the archive-internal path recorded in pending_libs
lib_path_unix(host, path, target) == Replace(lib_path(host, path, target), "\\", "/")

\* HashSet::insert
Insert(set, x) == set \cup {x}

objcopy(args) == Cmd("objcopy", <<>>, "n/a", args)

\* as ObjcopyCmds, Strip splitting too
ObjcopyCmds_always_split(host, c, path, target) ==
    LET out == Join(host, c.build_dir, lib_path(host, path, target))
        dwarf_path == WithExtension(host, out, S_dwarf)
        strip == objcopy(<<S_strip_debug, path, out>>)
        keep == objcopy(<<S_only_keep_debug, path, dwarf_path>>)
        link == objcopy(<<S_add_gnu_debuglink \o dwarf_path, out>>)
    IN IF c.strip = "Default" THEN <<>> ELSE <<strip, keep, link>>

\* as ObjcopyCmds, the debug link naming the base name of the side file
ObjcopyCmds_basename_link(host, c, path, target) ==
    LET out == Join(host, c.build_dir, lib_path(host, path, target))
        dwarf_path == WithExtension(host, out, S_dwarf)
        strip == objcopy(<<S_strip_debug, path, out>>)
        keep == objcopy(<<S_only_keep_debug, path, dwarf_path>>)
        link == objcopy(<<S_add_gnu_debuglink \o FileName(host, dwarf_path), out>>)
    IN IF c.strip = "Default" THEN <<>>
       ELSE IF c.strip = "Strip" THEN <<strip>>
       ELSE <<strip, keep, link>>

\* the object-copy invocations of a policy, in program order
ObjcopyCmds(host, c, path, target) ==
    LET out == Join(host, c.build_dir, lib_path(host, path, target))
        dwarf_path == WithExtension(host, out, S_dwarf)
        strip == objcopy(<<S_strip_debug, path, out>>)
        keep == objcopy(<<S_only_keep_debug, path, dwarf_path>>)
        link == objcopy(<<S_add_gnu_debuglink \o dwarf_path, out>>)
    IN IF c.strip = "Default" THEN <<>>
       ELSE IF c.strip = "Strip" THEN <<strip>>
       ELSE <<strip, keep, link>>

\* as add_lib, a split library being recorded under the name of its side file
add_lib_records_side(host, c, pending, path, target, exists, fs, found, outs) ==
    LET out == Join(host, c.build_dir, lib_path(host, path, target))
        cmds == ObjcopyCmds(host, c, path, target)
        r == Run(cmds, outs)
        entry == IF c.strip = "Split"
                 THEN WithExtension(host, lib_path_unix(host, path, target), S_dwarf)
                 ELSE lib_path_unix(host, path, target)
        Fail(tag, log) == [pending |-> pending, log |-> log, tag |-> tag, copied |-> None]
    IN IF ~exists THEN Fail("PathNotFound", <<>>)
       ELSE IF fs = "mkdir_err" THEN Fail("IoError", <<>>)
       ELSE IF c.strip = "Default"
       THEN IF fs = "copy_err" THEN Fail("IoError", <<>>)
            ELSE [pending |-> Insert(pending, entry),
                  log |-> <<>>, tag |-> "Ok", copied |-> Some(<<path, out>>)]
       ELSE IF ~found THEN Fail("ToolNotFound", <<>>)
       ELSE IF r.err # "" THEN Fail(r.err, r.log)
       ELSE [pending |-> Insert(pending, entry),
             log |-> r.log, tag |-> "Ok", copied |-> None]

\* exists: Path::exists of the source; fs: "ok", or which filesystem call
\* fails ("mkdir_err": create_dir_all, "copy_err": fs::copy); found: whether
\* Ndk::toolchain_bin finds objcopy; outs: what each invocation comes to.
\* copied: the (from, to) of the fs::copy made, if any.
add_lib(host, c, pending, path, target, exists, fs, found, outs) ==
    LET out == Join(host, c.build_dir, lib_path(host, path, target))
        cmds == ObjcopyCmds(host, c, path, target)
        r == Run(cmds, outs)
        Fail(tag, log) == [pending |-> pending, log |-> log, tag |-> tag, copied |-> None]
    IN IF ~exists THEN Fail("PathNotFound", <<>>)
       ELSE IF fs = "mkdir_err" THEN Fail("IoError", <<>>)
       ELSE IF c.strip = "Default"
       THEN IF fs = "copy_err" THEN Fail("IoError", <<>>)
            ELSE [pending |-> Insert(pending, lib_path_unix(host, path, target)),
                  log |-> <<>>, tag |-> "Ok", copied |-> Some(<<path, out>>)]
       ELSE IF ~found THEN Fail("ToolNotFound", <<>>)
       ELSE IF r.err # "" THEN Fail(r.err, r.log)
       ELSE [pending |-> Insert(pending, lib_path_unix(host, path, target)),
             log |-> r.log, tag |-> "Ok", copied |-> None]

(* -------------------- UnalignedApk::add_runtime_libs ------------------- *)
\* the result of staging: pending_libs, the (target, file name) pairs
\* staged, and the error ("Ok" for none)
Staged(pending, pairs, tag) == [pending |-> pending, pairs |-> pairs, tag |-> tag]

\* add_lib of each of paths in order, up to the first that fails; e is the
\* environment of each of these calls
RECURSIVE StageAll(_, _, _, _, _, _, _)
StageAll(host, c, pending, pairs, paths, target, e) ==
    IF paths = <<>> THEN Staged(pending, pairs, "Ok")
    ELSE LET r == add_lib(host, c, pending, Head(paths), target,
                          e.exists, e.fs, e.found, e.outs)
         IN IF r.tag # "Ok" THEN Staged(pending, pairs, r.tag)
            ELSE StageAll(host, c, r.pending,
                          pairs \cup {<<target, FileName(host, Head(paths))>>},
                          Tail(paths), target, e)

\* UnalignedApk::add_lib_recursively: add_lib of the library and of each of
\* deps, the runtime dependencies of it that are found on the search paths
add_lib_recursively(host, c, pending, path, target, deps, e) ==
    StageAll(host, c, pending, {}, <<path>> \o deps, target, e)

\* as Walk, the entries after one that fails being staged all
\* the same
RECURSIVE WalkOn(_, _, _, _, _, _, _, _)
WalkOn(host, c, pending, pairs, abi_dir, entries, target, deps) ==
    IF entries = <<>> THEN Staged(pending, pairs, "Ok")
    ELSE LET entry == Head(entries)
             path == Join(host, abi_dir, entry.name)
             r == add_lib_recursively(host, c, pending, path, target, deps, entry.env)
             rest == WalkOn(host, c, r.pending, pairs \cup r.pairs, abi_dir,
                            Tail(entries), target, deps)
         IN IF ~entry.read \/ Extension(host, path) # Some(S_so)
            THEN WalkOn(host, c, pending, pairs, abi_dir, Tail(entries), target, deps)
            ELSE IF r.tag # "Ok" THEN [rest EXCEPT !.tag = r.tag]
            ELSE rest

\* the walk over the entries read_dir yields: entry.read is whether the
\* entry could be read, entry.name its file name, entry.env the environment
\* of its staging
RECURSIVE Walk(_, _, _, _, _, _, _, _)
Walk(host, c, pending, pairs, abi_dir, entries, target, deps) ==
    IF entries = <<>> THEN Staged(pending, pairs, "Ok")
    ELSE LET entry == Head(entries)
             path == Join(host, abi_dir, entry.name)
             r == add_lib_recursively(host, c, pending, path, target, deps, entry.env)
         IN IF ~entry.read THEN Staged(pending, pairs, "IoError")
            ELSE IF Extension(host, path) # Some(S_so)
            THEN Walk(host, c, pending, pairs, abi_dir, Tail(entries), target, deps)
            ELSE IF r.tag # "Ok" THEN Staged(r.pending, pairs \cup r.pairs, r.tag)
            ELSE Walk(host, c, r.pending, pairs \cup r.pairs, abi_dir,
                      Tail(entries), target, deps)

\* dir: None when read_dir fails, else Some(the entries it yields, in the
\* order it yields them); deps: the dependencies of each library staged
add_runtime_libs(host, c, pending, path, target, dir, deps) ==
    LET abi_dir == Join(host, path, android_abi(target))
        r == Walk(host, c, pending, {}, abi_dir, dir[1], target, deps)
    IN IF dir = None
       THEN [pending |-> pending, pairs |-> {}, tag |-> "IoPathError", errpath |-> Some(abi_dir)]
       ELSE [pending |-> r.pending, pairs |-> r.pairs, tag |-> r.tag, errpath |-> None]

(* ---------------- UnalignedApk::add_pending_libs_and_align ------------- *)
aapt_add(host, c, order) ==
    [build_tool(c, "aapt") EXCEPT !.args =
        <<S_add>> \o CompressionArgs(c) \o <<unaligned_apk(host, c)>> \o order]

zipalign(host, c) ==
    [build_tool(c, "zipalign") EXCEPT !.args =
        <<S_f, S_v, S_4, unaligned_apk(host, c), apk(host, c)>>]

\* as add_pending_libs_and_align, without the check of zipalign's status
add_pending_libs_and_align_unchecked(host, c, order, outs) ==
    LET r == Run(<<aapt_add(host, c, order), zipalign(host, c)>>, outs)
        ok == Len(r.log) = 2 /\ r.log[1].outcome = "exit0"
    IN [log |-> r.log, tag |-> IF ok THEN "Ok" ELSE r.err, made |-> ok]

\* as add_pending_libs_and_align, `aapt add` being left out when there is
\* no library to add
add_pending_libs_and_align_skip_empty(host, c, order, outs) ==
    LET r == IF order = <<>>
             THEN Run(<<zipalign(host, c)>>, <<outs[2]>>)
             ELSE Run(<<aapt_add(host, c, order), zipalign(host, c)>>, outs)
    IN [log |-> r.log, tag |-> IF r.err = "" THEN "Ok" ELSE r.err, made |-> r.err = ""]

\* order: the order in which pending_libs is iterated
\* made: whether an UnsignedApk is returned
add_pending_libs_and_align(host, c, order, outs) ==
    LET r == Run(<<aapt_add(host, c, order), zipalign(host, c)>>, outs)
    IN [log |-> r.log, tag |-> IF r.err = "" THEN "Ok" ELSE r.err, made |-> r.err = ""]

(* ------------------------------ Apk ------------------------------------ *)
\* Apk::from_config
from_config(host, c) ==
    [path |-> apk(host, c),
     package_name |-> c.package,
     reverse_port_forward |-> c.reverse_port_forward]

(* ------------------------- UnsignedApk::sign --------------------------- *)
apksigner(host, c, key) ==
    [build_tool(c, "apksigner") EXCEPT !.args =
        <<S_sign, S_ks, key.path, S_ks_pass, S_pass \o key.password, apk(host, c)>>]

\* as sign, the exit status of apksigner being ignored
sign_unchecked(host, c, key, out) ==
    LET r == Run(<<apksigner(host, c, key)>>, <<out>>)
        ran == out \in {"exit0", "exit1"}
    IN [log |-> r.log, tag |-> IF ran THEN "Ok" ELSE r.err, made |-> ran]

\* made: whether an Apk (from_config of the configuration) is returned
sign(host, c, key, out) ==
    LET r == Run(<<apksigner(host, c, key)>>, <<out>>)
    IN [log |-> r.log, tag |-> IF r.err = "" THEN "Ok" ELSE r.err, made |-> r.err = ""]

(* ---------------------- Apk: the device operations --------------------- *)
adb_reverse(device_serial, from, to) == Arg(Arg(Arg(adb(device_serial), S_reverse), from), to)

\* as reverse_port_forwarding, every entry being forwarded before the first
\* error is returned
reverse_port_forwarding_all(a, device_serial, order, outs) ==
    LET cmds == [i \in 1..Len(order) |->
                    adb_reverse(device_serial, order[i], a.reverse_port_forward[order[i]])]
        r == RunNoStop(cmds, outs)
    IN [log |-> r.log, tag |-> IF r.err = "" THEN "Ok" ELSE r.err]

\* order: the order in which the reverse_port_forward map is iterated
reverse_port_forwarding(a, device_serial, order, outs) ==
    LET cmds == [i \in 1..Len(order) |->
                    adb_reverse(device_serial, order[i], a.reverse_port_forward[order[i]])]
        r == Run(cmds, outs)
    IN [log |-> r.log, tag |-> IF r.err = "" THEN "Ok" ELSE r.err]

adb_install(a, device_serial) == Arg(Arg(Arg(adb(device_serial), S_install), S_r), a.path)

install(a, device_serial, out) ==
    LET r == Run(<<adb_install(a, device_serial)>>, <<out>>)
    IN [log |-> r.log, tag |-> IF r.err = "" THEN "Ok" ELSE r.err]

adb_start(a, device_serial) ==
    [adb(device_serial) EXCEPT !.args =
        <<S_shell, S_am, S_start, S_a, S_action_main, S_n, a.package_name \o S_native_activity>>]

start(a, device_serial, out) ==
    LET r == Run(<<adb_start(a, device_serial)>>, <<out>>)
    IN [log |-> r.log, tag |-> IF r.err = "" THEN "Ok" ELSE r.err]

adb_list(a, device_serial) ==
    [adb(device_serial) EXCEPT !.args = <<S_shell, S_pm, S_list, S_package, S_U, a.package_name>>]

\* as FilterMapSplit, a line without a space giving the pair (line, "")
RECURSIVE FilterMapSplit_keep(_)
FilterMapSplit_keep(lines) ==
    IF lines = <<>> THEN <<>>
    ELSE (IF SplitOnce(Head(lines), " ") = None
          THEN <<<<Head(lines), <<>>>>>>
          ELSE SplitOnce(Head(lines), " ")) \o FilterMapSplit_keep(Tail(lines))

\* .filter_map(|line| line.split_once(' ')): the (package, uid) pairs of the
\* lines that hold a space, in line order
RECURSIVE FilterMapSplit(_)
FilterMapSplit(lines) ==
    IF lines = <<>> THEN <<>>
    ELSE SplitOnce(Head(lines), " ") \o FilterMapSplit(Tail(lines))

\* as FindPackage, the package only having to begin with the name
FindPackage_prefix(pairs, name) ==
    LET hits == {i \in 1..Len(pairs) :
                    StripPrefix(pairs[i][1], S_package_colon \o name) # None}
    IN IF hits = {} THEN None ELSE Some(pairs[Min(hits)])

\* .find(|(package, _uid)| package.strip_prefix("package:") == Some(name))
FindPackage(pairs, name) ==
    LET hits == {i \in 1..Len(pairs) : StripPrefix(pairs[i][1], S_package_colon) = Some(name)}
    IN IF hits = {} THEN None ELSE Some(pairs[Min(hits)])

\* the parsing of the listing: apk.rs lines 326-341
parse_uid(output, name) ==
    LET found == FindPackage(FilterMapSplit(Lines(output)), name)
        uid == StripPrefix(found[1][2], S_uid_colon)
    IN IF found = None THEN [tag |-> "PackageNotInOutput", val |-> <<>>]
       ELSE IF uid = None THEN [tag |-> "UidNotInOutput", val |-> <<>>]
       ELSE IF ParseU32(uid[1]) = None THEN [tag |-> "NotAUid", val |-> uid[1]]
       ELSE [tag |-> "Ok", val |-> ParseU32(uid[1])[1]]

\* out: what finding and running adb comes to; stdout: what it printed
uidof(a, device_serial, out, stdout) ==
    LET r == Run(<<adb_list(a, device_serial)>>, <<out>>)
    IN IF r.err # "" THEN [log |-> r.log, tag |-> r.err, val |-> <<>>]
       ELSE [log |-> r.log] @@ parse_uid(stdout, a.package_name)

(* ------------------------------ the state ------------------------------ *)
VARIABLES
    host,       \* the platform the program runs on
    config,     \* the ApkConfig of the build (never modified)
    unaligned,  \* the live UnalignedApk handles: id -> pending_libs
    unsigned,   \* the ids of the live UnsignedApk handles
    apks,       \* the live Apk values
    hist,       \* per id, what the tools did for the handles of that id
    added,      \* per id, the (target, file name) pairs add_lib has staged
    last        \* the last call: its inputs, its invocations, its result

vars == <<host, config, unaligned, unsigned, apks, hist, added, last>>

\* the record of a call; the fields a call has no use for keep these values
NoCall ==
    [op |-> "none", id |-> 0, path |-> <<>>, target |-> "n/a", stdout |-> <<>>,
     pending |-> {}, env |-> <<>>, log |-> <<>>, tag |-> "Ok", val |-> <<>>,
     copied |-> None, errpath |-> None,
     started |-> 0, exited |-> 0, returned |-> FALSE]

\* Command::status / Command::output, step by step.  call.log holds the
\* invocations the call makes, call.started how many of them have been
\* started and call.exited how many of these are over.
\* as NextToSpawn, a command being started without the one before it being
\* waited for
NextToSpawn_nowait(call) ==
    IF call.started < Len(call.log) THEN call.started + 1 ELSE 0

\* the invocation the call starts next (0: none, the call being blocked in
\* status() until the process it started exits, or having started them all)
NextToSpawn(call) ==
    IF call.started = call.exited /\ call.started < Len(call.log)
    THEN call.started + 1
    ELSE 0

\* whether the call may return: status() has returned for its last command
CanReturn(call) ==
    /\ call.op # "none"
    /\ ~call.returned
    /\ call.started = Len(call.log)
    /\ call.exited = call.started

\* whether the caller may make a call: none was made, or the last returned
Idle == last.op = "none" \/ last.returned

\* the invocations of the call whose processes are running
Running(call) == {i \in 1..Len(call.log) : call.exited < i /\ i <= call.started}

\* whether the log holds an invocation of tool, with first argument arg1,
\* that exited zero
Succeeded(log, tool, arg1) ==
    \E i \in 1..Len(log) :
        /\ log[i].cmd.tool = tool
        /\ log[i].cmd.args[1] = arg1
        /\ log[i].outcome = "exit0"

\* whether the log holds an invocation of tool at all
Invoked(log, tool) == \E i \in 1..Len(log) : log[i].cmd.tool = tool

\* a handle moved into a call is gone afterwards (`self` by value)
Consume(handles, id) == [i \in DOMAIN handles \ {id} |-> handles[i]]

(* ------------------------------ the inputs ----------------------------- *)
BuildDirRel == <<"o", "u", "t">>
BuildDirAbs == <<"/", "w", "/", "o", "u", "t">>
ApkName == <<"a", "p", "p">>
PkgExample == <<"c", "o", "m", ".", "e", "x", "a", "m", "p", "l", "e">>
PkgDemo == <<"c", "o", "m", ".", "e", "x", "a", "m", "p", "l", "e", ".", "d", "e", "m", "o">>
ResDir == <<"r", "e", "s">>
AssetDir == <<"a", "s", "s", "e", "t", "s">>
KeyPath == <<"d", "e", "b", "u", "g", ".", "k", "e", "y", "s", "t", "o", "r", "e">>
KeyPassword == <<"a", "n", "d", "r", "o", "i", "d">>
PathA == <<"s", "/", "l", "i", "b", "a", ".", "s", "o">>
PathA2 == <<"t", "/", "l", "i", "b", "a", ".", "s", "o">>
PathB == <<"s", "/", "b", "\\", "c", ".", "s", "o">>
Port8000 == <<"t", "c", "p", ":", "8", "0", "0", "0">>
Port9000 == <<"t", "c", "p", ":", "9", "0", "0", "0">>
Port7000 == <<"t", "c", "p", ":", "7", "0", "0", "0">>
Port6000 == <<"t", "c", "p", ":", "6", "0", "0", "0">>
LineExample == <<"p", "a", "c", "k", "a", "g", "e", ":", "c", "o", "m", ".", "e", "x", "a", "m", "p", "l", "e", " ", "u", "i", "d", ":", "1", "0", "0", "0">>
LineDemo == <<"p", "a", "c", "k", "a", "g", "e", ":", "c", "o", "m", ".", "e", "x", "a", "m", "p", "l", "e", ".", "d", "e", "m", "o", " ", "u", "i", "d", ":", "2", "0", "0", "0">>
LineTabDemo == <<"p", "a", "c", "k", "a", "g", "e", ":", "c", "o", "m", ".", "e", "x", "a", "m", "p", "l", "e", ".", "d", "e", "m", "o", "\t", "u", "i", "d", ":", "2", "0", "0", "0">>
LineTab == <<"p", "a", "c", "k", "a", "g", "e", ":", "c", "o", "m", ".", "e", "x", "a", "m", "p", "l", "e", "\t", "u", "i", "d", ":", "1", "0", "0", "0">>
LineBare == <<"p", "a", "c", "k", "a", "g", "e", ":", "c", "o", "m", ".", "e", "x", "a", "m", "p", "l", "e">>
LineAbc == <<"p", "a", "c", "k", "a", "g", "e", ":", "c", "o", "m", ".", "e", "x", "a", "m", "p", "l", "e", " ", "u", "i", "d", ":", "a", "b", "c">>
LineNoUid == <<"p", "a", "c", "k", "a", "g", "e", ":", "c", "o", "m", ".", "e", "x", "a", "m", "p", "l", "e", " ", "g", "i", "d", ":", "1", "0", "0", "0">>
LineBig == <<"p", "a", "c", "k", "a", "g", "e", ":", "c", "o", "m", ".", "e", "x", "a", "m", "p", "l", "e", " ", "u", "i", "d", ":", "4", "2", "9", "4", "9", "6", "7", "2", "9", "6">>

\* how many UnalignedApk handles a behaviour creates at most
MaxBuilds == 2
\* how many lines a package listing holds at most
MaxLines == 2
\* how many entries the reverse_port_forward map holds at most
MaxPorts == 3

Ports == <<Port8000, Port9000, Port7000, Port6000, Port8000 \o <<"1">>, Port9000 \o <<"1">>>>

\* a reverse_port_forward map of n entries, each port forwarded to itself
PortMap(n) == [k \in {Ports[i] : i \in 1..n} |-> k]

Config(build_dir, strip, package, disable, dirs, ports) ==
    [build_dir |-> build_dir, apk_name |-> ApkName,
     assets |-> IF dirs THEN Some(AssetDir) ELSE None,
     resources |-> IF dirs THEN Some(ResDir) ELSE None,
     package |-> package, disable_aapt_compression |-> disable,
     strip |-> strip, reverse_port_forward |-> ports]

TheKey == [path |-> KeyPath, password |-> KeyPassword]

UidLines == {LineExample, LineDemo, LineTab, LineTabDemo, LineBare, LineAbc, LineNoUid, LineBig}

\* the lines of ls, each ended by a line feed
RECURSIVE Listing(_)
Listing(ls) == IF ls = <<>> THEN <<>> ELSE Head(ls) \o <<"\n">> \o Listing(Tail(ls))

\* the listings of at most n lines
Listings(n) == {Listing(ls) : ls \in UNION {[1..k -> UidLines] : k \in 0..n}}

\* an environment of add_lib in which every step works
FineEnv == [exists |-> TRUE, fs |-> "ok", found |-> TRUE, outs |-> [i \in 1..3 |-> "exit0"]]

\* an environment of add_lib in which the step that makes the destination
\* fails, whatever the policy: fs::copy, or the first objcopy invocation
BrokenEnv == [FineEnv EXCEPT !.fs = "copy_err", !.outs = [i \in 1..3 |-> "exit1"]]

\* how many entries a directory of runtime libraries holds at most
MaxEntries == 2

\* the directory the runtime libraries are looked up in, and the names of
\* its entries: two libraries, and a versioned library (extension "1")
RootDir == <<"r">>
NameA == <<"l", "i", "b", "a", ".", "s", "o">>
NameB == <<"l", "i", "b", "b", ".", "s", "o">>
NameVer == <<"l", "i", "b", "c", ".", "s", "o", ".", "1">>
EntryNames == {NameA, NameB, NameVer}

\* a dependency of the libraries, found on a search path
PathDep == <<"d", "/", "l", "i", "b", "d", ".", "s", "o">>
DepChoices == {<<>>, <<PathDep>>}

\* What read_dir can come to: it fails, or it yields at most MaxEntries
\* entries of different names in some order, at most one of which cannot be
\* read or cannot be staged.
DirEntries ==
    [name : EntryNames, read : BOOLEAN, env : {FineEnv, BrokenEnv}]
Good(entry) == entry.read /\ entry.env = FineEnv
Dirs ==
    {None} \cup
    {Some(d) : d \in
        {d \in UNION {[1..k -> DirEntries] : k \in 0..MaxEntries} :
            /\ \A i, j \in 1..Len(d) : d[i].name = d[j].name => i = j
            /\ \A i \in 1..Len(d) : d[i].read \/ d[i].env = FineEnv
            /\ Cardinality({i \in 1..Len(d) : ~Good(d[i])}) <= 1}}

\* The ways n invocations in a row can end that are told apart: at most one
\* of them does not exit zero, or none of them does so.
Vectors(n, outcomes) ==
    {v \in [1..n -> outcomes] : Cardinality({i \in 1..n : v[i] # "exit0"}) <= 1}
    \cup {[i \in 1..n |-> "exit1"]}

\* What the environment of one add_lib call can be: everything works, or
\* one filesystem or lookup step fails, or the invocations end in one of
\* the ways above.
AddLibEnvs ==
    LET fine == [exists |-> TRUE, fs |-> "ok", found |-> TRUE, outs |-> [i \in 1..3 |-> "exit0"]]
    IN {[fine EXCEPT !.exists = FALSE], [fine EXCEPT !.fs = "mkdir_err"],
        [fine EXCEPT !.fs = "copy_err"], [fine EXCEPT !.found = FALSE]}
       \cup {[fine EXCEPT !.outs = o] : o \in Vectors(3, Outcomes)}

\* the environments in which at most the first step of add_lib fails
FirstStepEnvs == {e \in AddLibEnvs : e.fs = "ok" /\ e.outs[2] = "exit0" /\ e.outs[3] = "exit0"}

\* What the environment of one uidof call can be: adb is not found or does
\* not exit zero, or it exits zero having printed one of the listings.
UidofEnvs(listings) ==
    {[out |-> o, stdout |-> <<>>] : o \in StepOutcomes \ {"exit0"}}
    \cup {[out |-> "exit0", stdout |-> l] : l \in listings}

(* ------------------------------ the calls ------------------------------ *)
Init(hosts, configs) ==
    /\ host \in hosts
    /\ config \in configs
    /\ unaligned = <<>>
    /\ unsigned = {}
    /\ apks = {}
    /\ hist = <<>>
    /\ added = <<>>
    /\ last = NoCall

CreateApk(builds) ==
    /\ Len(hist) < builds
    /\ \E fs \in {"ok", "io_err"}, out \in StepOutcomes :
         \E r \in {create_apk(host, config, fs, out)}, id \in {Len(hist) + 1} :
           /\ last' = [NoCall EXCEPT !.op = "create_apk", !.log = r.log, !.tag = r.tag,
                                     !.id = IF r.made THEN id ELSE 0]
           /\ IF r.made
              THEN /\ unaligned' = (id :> {}) @@ unaligned
                   /\ added' = Append(added, {})
                   /\ hist' = Append(hist, [created |-> Succeeded(r.log, "aapt", S_package),
                                            aligns |-> 0, aligned |-> FALSE,
                                            signs |-> 0, signed |-> FALSE])
              ELSE UNCHANGED <<unaligned, added, hist>>
    /\ UNCHANGED <<host, config, unsigned, apks>>

\* libs: the (source path, target) pairs the caller stages
AddLib(libs, envs) ==
    \E id \in DOMAIN unaligned, lib \in libs, e \in envs :
      \E path \in {lib[1]}, target \in {lib[2]} :
      \E r \in {add_lib(host, config, unaligned[id], path, target,
                        e.exists, e.fs, e.found, e.outs)} :
        /\ last' = [NoCall EXCEPT !.op = "add_lib", !.id = id, !.path = path,
                                  !.target = target, !.pending = unaligned[id], !.env = e,
                                  !.log = r.log, !.tag = r.tag, !.copied = r.copied]
        /\ unaligned' = [unaligned EXCEPT ![id] = r.pending]
        /\ added' = IF r.tag = "Ok"
                    THEN [added EXCEPT ![id] = @ \cup {<<target, FileName(host, path)>>}]
                    ELSE added
        /\ UNCHANGED <<host, config, unsigned, apks, hist>>

AddPendingLibsAndAlign ==
    \E id \in DOMAIN unaligned, outs \in Vectors(2, StepOutcomes) :
      \E order \in Orders(unaligned[id]) :
        \E r \in {add_pending_libs_and_align(host, config, order, outs)} :
          /\ last' = [NoCall EXCEPT !.op = "add_pending_libs_and_align", !.id = id,
                                    !.pending = unaligned[id], !.log = r.log, !.tag = r.tag]
          /\ unaligned' = Consume(unaligned, id)
          /\ unsigned' = IF r.made THEN unsigned \cup {id} ELSE unsigned
          /\ hist' = [hist EXCEPT ![id].aligns = @ + 1,
                                  ![id].aligned = Succeeded(r.log, "zipalign", S_f)]
          /\ added' = [added EXCEPT ![id] = {}]
          /\ UNCHANGED <<host, config, apks>>

Sign ==
    \E id \in unsigned, out \in StepOutcomes :
      \E r \in {sign(host, config, TheKey, out)} :
        /\ last' = [NoCall EXCEPT !.op = "sign", !.id = id, !.log = r.log, !.tag = r.tag]
        /\ unsigned' = unsigned \ {id}
        /\ apks' = IF r.made THEN apks \cup {from_config(host, config)} ELSE apks
        /\ hist' = [hist EXCEPT ![id].signs = @ + 1,
                                ![id].signed = Succeeded(r.log, "apksigner", S_sign)]
        /\ UNCHANGED <<host, config, unaligned, added>>

\* Apk::from_config is `pub`: any holder of an ApkConfig may call it
FromConfig ==
    /\ last' = [NoCall EXCEPT !.op = "from_config"]
    /\ apks' = apks \cup {from_config(host, config)}
    /\ UNCHANGED <<host, config, unaligned, unsigned, hist, added>>

ReversePortForwarding(devices) ==
    \E a \in apks, device_serial \in devices :
      \E order \in Orders(DOMAIN a.reverse_port_forward) :
        \E outs \in Vectors(Len(order), StepOutcomes) :
          \E r \in {reverse_port_forwarding(a, device_serial, order, outs)} :
            /\ last' = [NoCall EXCEPT !.op = "reverse_port_forwarding",
                                      !.log = r.log, !.tag = r.tag]
            /\ UNCHANGED <<host, config, unaligned, unsigned, apks, hist, added>>

Install(devices) ==
    \E a \in apks, device_serial \in devices, out \in StepOutcomes :
      \E r \in {install(a, device_serial, out)} :
        /\ last' = [NoCall EXCEPT !.op = "install", !.log = r.log, !.tag = r.tag]
        /\ UNCHANGED <<host, config, unaligned, unsigned, apks, hist, added>>

Start(devices) ==
    \E a \in apks, device_serial \in devices, out \in StepOutcomes :
      \E r \in {start(a, device_serial, out)} :
        /\ last' = [NoCall EXCEPT !.op = "start", !.log = r.log, !.tag = r.tag]
        /\ UNCHANGED <<host, config, unaligned, unsigned, apks, hist, added>>

Uidof(devices, envs) ==
    \E a \in apks, device_serial \in devices, e \in envs :
      \E r \in {uidof(a, device_serial, e.out, e.stdout)} :
        /\ last' = [NoCall EXCEPT !.op = "uidof", !.stdout = e.stdout,
                                  !.log = r.log, !.tag = r.tag, !.val = r.val]
        /\ UNCHANGED <<host, config, unaligned, unsigned, apks, hist, added>>

AddRuntimeLibs(roots, targets, dirs) ==
    \E id \in DOMAIN unaligned, path \in roots, target \in targets :
      \E dir \in dirs, deps \in DepChoices :
        \E r \in {add_runtime_libs(host, config, unaligned[id], path, target, dir, deps)} :
          /\ last' = [NoCall EXCEPT !.op = "add_runtime_libs", !.id = id, !.path = path,
                                    !.target = target, !.pending = unaligned[id],
                                    !.env = [dir |-> dir, deps |-> deps],
                                    !.tag = r.tag, !.errpath = r.errpath]
          /\ unaligned' = [unaligned EXCEPT ![id] = r.pending]
          /\ added' = [added EXCEPT ![id] = @ \cup r.pairs]
          /\ UNCHANGED <<host, config, unsigned, apks, hist>>

\* the call starts its next command; a command that cannot be spawned is
\* over at once
StatusSpawn ==
    /\ ~Idle
    /\ NextToSpawn(last) # 0
    /\ last' = [last EXCEPT !.started = @ + 1,
                            !.exited = IF last.log[NextToSpawn(last)].outcome = "spawn_err"
                                       THEN @ + 1 ELSE @]
    /\ UNCHANGED <<host, config, unaligned, unsigned, apks, hist, added>>

\* the process started first among those running exits
ProcessExit ==
    /\ last.exited < last.started
    /\ last' = [last EXCEPT !.exited = @ + 1]
    /\ UNCHANGED <<host, config, unaligned, unsigned, apks, hist, added>>

\* the call returns to its caller
Return ==
    /\ CanReturn(last)
    /\ last' = [last EXCEPT !.returned = TRUE]
    /\ UNCHANGED <<host, config, unaligned, unsigned, apks, hist, added>>

(* --------------------------- the specifications ------------------------ *)
\* The whole pipeline, on a Unix host, with one library and one device.
PipelineConfigs ==
    {Config(BuildDirRel, "Default", PkgExample, FALSE, FALSE, PortMap(1)),
     Config(BuildDirRel, "Split", PkgExample, TRUE, TRUE, PortMap(1))}

OneLib == {<<PathA, "Arm64V8a">>}
OneDevice == {"none"}
TwoListings == {Listing(<<LineExample>>), Listing(<<LineDemo>>)}

\* the environments of uidof in the pipeline: those of the two listings,
\* and adb exiting non-zero after it printed a listing
PipelineUidofEnvs ==
    UidofEnvs(TwoListings) \cup {[out |-> "exit1", stdout |-> Listing(<<LineExample>>)]}

Next ==
    \/ CreateApk(MaxBuilds)
    \/ AddLib(OneLib, FirstStepEnvs)
    \/ AddPendingLibsAndAlign
    \/ Sign
    \/ FromConfig
    \/ ReversePortForwarding(OneDevice)
    \/ Install(OneDevice)
    \/ Start(OneDevice)
    \/ Uidof(OneDevice, PipelineUidofEnvs)

Unix == {"unix"}

Spec == Init(Unix, PipelineConfigs) /\ [][Next]_vars

\* The library stager: one UnalignedApk, on either host, under every policy
\* and build directory, with libraries from two directories.
LibConfigs ==
    {Config(build_dir, strip, PkgExample, FALSE, FALSE, PortMap(0)) :
        build_dir \in {BuildDirRel, BuildDirAbs}, strip \in StripConfig}

\* the same file name from two directories, the same file name for another
\* target, and a name that holds a backslash (on Windows: a separator)
Libs == {<<PathA, "Arm64V8a">>, <<PathA2, "Arm64V8a">>, <<PathA, "X86">>, <<PathB, "X86">>}

NextLib ==
    \/ CreateApk(1)
    \/ AddLib(Libs, AddLibEnvs)
    \/ AddPendingLibsAndAlign

SpecLib == Init(Hosts, LibConfigs) /\ [][NextLib]_vars

\* The uid lookup: an Apk of either package, and every listing of at most
\* MaxLines lines.
UidConfigs ==
    {Config(BuildDirRel, "Default", package, FALSE, FALSE, PortMap(0)) :
        package \in {PkgExample, PkgDemo}}

AllListings == Listings(MaxLines)
AllUidofEnvs == UidofEnvs(AllListings)

NextUid ==
    \/ FromConfig
    \/ Uidof(OneDevice, AllUidofEnvs)

SpecUid == Init(Unix, UidConfigs) /\ [][NextUid]_vars

\* Reverse port forwarding: an Apk with a map of at most MaxPorts entries.
PortConfigs ==
    {Config(BuildDirRel, "Default", PkgExample, FALSE, FALSE, PortMap(n)) : n \in 0..MaxPorts}

TwoDevices == {"none", "emulator-5554"}

NextPorts ==
    \/ FromConfig
    \/ ReversePortForwarding(TwoDevices)

SpecPorts == Init(Unix, PortConfigs) /\ [][NextPorts]_vars

\* The runtime libraries: one UnalignedApk, under two policies, directories
\* of at most MaxEntries entries for one target.
RuntimeConfigs ==
    {Config(BuildDirRel, strip, PkgExample, FALSE, FALSE, PortMap(0)) :
        strip \in {"Default", "Strip"}}

OneRoot == {RootDir}
OneTarget == {"Arm64V8a"}
AllDirs == Dirs

NextRuntime ==
    \/ CreateApk(1)
    \/ AddRuntimeLibs(OneRoot, OneTarget, AllDirs)

SpecRuntime == Init(Unix, RuntimeConfigs) /\ [][NextRuntime]_vars

\* The processes: one build by one caller, each call being followed step
\* by step from its first command to its return.
NextProcesses ==
    \/ Idle /\ CreateApk(1)
    \/ Idle /\ AddLib(OneLib, FirstStepEnvs)
    \/ Idle /\ AddPendingLibsAndAlign
    \/ Idle /\ Sign
    \/ Idle /\ ReversePortForwarding(OneDevice)
    \/ Idle /\ Install(OneDevice)
    \/ Idle /\ Start(OneDevice)
    \/ Idle /\ Uidof(OneDevice, PipelineUidofEnvs)
    \/ StatusSpawn
    \/ ProcessExit
    \/ Return

SpecProcesses == Init(Unix, PipelineConfigs) /\ [][NextProcesses]_vars

\* The container paths: one build from create_apk to install, on either
\* host, in a relative and in an absolute build directory.
PathConfigs ==
    {Config(build_dir, "Default", PkgExample, disable, FALSE, PortMap(0)) :
        build_dir \in {BuildDirRel, BuildDirAbs}, disable \in BOOLEAN}

NextPaths ==
    \/ CreateApk(1)
    \/ AddLib(OneLib, FirstStepEnvs)
    \/ AddPendingLibsAndAlign
    \/ Sign
    \/ Install(OneDevice)

SpecPaths == Init(Hosts, PathConfigs) /\ [][NextPaths]_vars

(* ------------------------------ the claims ----------------------------- *)
Ids == 1..Len(hist)

\* C1: the package states are reached in the order Created -> Aligned ->
\* Signed.  For every handle id: sign is called at most once and only after
\* zipalign exited zero for it; add_pending_libs_and_align is called at most
\* once and only after `aapt package` exited zero for it; and a handle is
\* live in at most one state, which it has not yet left.
C1_StrictOrder ==
    \A id \in Ids :
        /\ hist[id].aligns <= 1
        /\ hist[id].signs <= 1
        /\ hist[id].aligns > 0 => hist[id].created
        /\ hist[id].signs > 0 => hist[id].aligned /\ hist[id].aligns = 1
        /\ id \in DOMAIN unaligned => hist[id].created /\ hist[id].aligns = 0 /\ id \notin unsigned
        /\ id \in unsigned => hist[id].aligned /\ hist[id].signs = 0
        /\ hist[id].signed => hist[id].aligned /\ hist[id].created
        /\ last.op = "sign" /\ last.id = id /\ Invoked(last.log, "apksigner")
              => hist[id].aligned /\ hist[id].created

\* one handle went all the way to Signed while another was consumed by a
\* failed alignment
C1_Witness ==
    \E i, j \in Ids :
        /\ hist[i].signed /\ hist[i].signs = 1
        /\ hist[j].aligns = 1 /\ ~hist[j].aligned /\ j \notin unsigned

\* C2: an Apk (the handle of install, start, reverse_port_forwarding and
\* uidof) exists only if `aapt package`, zipalign and apksigner have all
\* exited zero for one handle of the build.
C2_ApkOnlyAfterSign ==
    apks # {} => \E id \in Ids : hist[id].created /\ hist[id].aligned /\ hist[id].signed

(* ---- uidof ---- *)
\* a uidof call whose adb invocation exited zero, so that stdout is parsed
UidofParsed ==
    /\ last.op = "uidof"
    /\ Len(last.log) = 1
    /\ last.log[1].outcome = "exit0"

\* the package identity the listing is searched for
Identity == config.package

Uid1000 == <<"1", "0", "0", "0">>
Uid2000 == <<"2", "0", "0", "0">>

\* the line `package:<id><sep>uid:<n>`
ShapedLine(id, sep, n) == S_package_colon \o id \o <<sep>> \o S_uid_colon \o n

\* the (id, n) of a line of that shape
ShapedAs(line, sep) ==
    {p \in {PkgExample, PkgDemo} \X {Uid1000, Uid2000} : line = ShapedLine(p[1], sep, p[2])}

\* For every listing whose lines all have the shape `package:<id><sep>uid:<n>`
\* and one of which names the identity exactly, uidof returns the uid of the
\* first such line, whatever other lines come before or after it.
ExactMatchWins(sep) ==
    UidofParsed =>
        LET ls == Lines(last.stdout)
            exact == {i \in 1..Len(ls) : \E p \in ShapedAs(ls[i], sep) : p[1] = Identity}
        IN (\A i \in 1..Len(ls) : ShapedAs(ls[i], sep) # {}) /\ exact # {}
              => /\ last.tag = "Ok"
                 /\ \E p \in ShapedAs(ls[Min(exact)], sep) : last.val = p[2]

\* C3 as stated: with the fields of a line separated by a tab, uidof selects
\* the line whose package field equals the identity exactly.
C3_ExactMatchTab == ExactMatchWins("\t")

\* C3, amended: with the fields of a line separated by one space, uidof
\* selects the line whose package field equals the identity exactly, not a
\* line whose package merely contains the identity.
C3_ExactMatchSpace == ExactMatchWins(" ")

\* the longer package is listed first, and the shorter one is looked up
C3_Witness ==
    /\ UidofParsed
    /\ Identity = PkgExample
    /\ last.stdout = Listing(<<LineDemo, LineExample>>)
    /\ last.val = Uid1000

\* The error outcomes of uidof, given what the first field of a line and the
\* rest of it are taken to be: First(l) and Rest(l) for the lines on which
\* Counts(l) holds.
UidErrors(Counts(_), First(_), Rest(_)) ==
    UidofParsed =>
        LET ls == Lines(last.stdout)
            exact == {i \in 1..Len(ls) :
                        Counts(ls[i]) /\ First(ls[i]) = S_package_colon \o Identity}
            rest == Rest(ls[Min(exact)])
        IN /\ last.tag = "PackageNotInOutput" <=> exact = {}
           /\ exact # {} /\ StripPrefix(rest, S_uid_colon) = None
                 => last.tag = "UidNotInOutput"
           /\ exact # {} /\ StripPrefix(rest, S_uid_colon) # None
                 /\ ParseU32(StripPrefix(rest, S_uid_colon)[1]) = None
                 => last.tag = "NotAUid"

HasSpace(l) == Positions(l, " ") # {}
UpToSpace(l) == IF HasSpace(l) THEN SubSeq(l, 1, Min(Positions(l, " ")) - 1) ELSE l
AfterSpace(l) == IF HasSpace(l) THEN Drop(l, Min(Positions(l, " ")) + 1) ELSE <<>>
AnyLine(l) == TRUE

\* C4 as stated: every line counts, a line without a space being a package
\* field alone (with no uid field): PackageNotInOutput iff no line's package
\* field is the identity, UidNotInOutput when the matching line has no
\* `uid:` field, NotAUid when that field is not a u32.
C4_ErrorsEveryLine == UidErrors(AnyLine, UpToSpace, AfterSpace)

\* C4, amended: only the lines that hold a space count (a line that
\* consists of the package field alone is skipped): PackageNotInOutput iff
\* no such line has `package:<identity>` before its first space,
\* UidNotInOutput when the first such line does not go on with `uid:`,
\* NotAUid when what follows `uid:` is not a u32.
C4_ErrorsSpacedLines == UidErrors(HasSpace, UpToSpace, AfterSpace)

\* a bare package line is skipped and the next line has a uid that is no number
C4_Witness ==
    /\ UidofParsed
    /\ Identity = PkgExample
    /\ last.stdout = Listing(<<LineBare, LineAbc>>)
    /\ last.tag = "NotAUid"

(* ---- reverse_port_forwarding ---- *)
\* C5: reverse_port_forwarding issues `adb reverse <from> <to>` once per
\* entry of the map, in some order: all N of them when each exits zero; an
\* invocation that exits non-zero is the last one issued and the call
\* returns CmdFailed; nothing but `reverse` of an entry is ever invoked (no
\* entry is forwarded twice, none is undone).
C5_OnePerEntryFailFast ==
    last.op = "reverse_port_forwarding" =>
        LET m == config.reverse_port_forward
            log == last.log
            n == Len(log)
        IN /\ \A i \in 1..n :
                /\ log[i].cmd.tool = "adb"
                /\ \E k \in DOMAIN m : log[i].cmd.args = <<S_reverse, k, m[k]>>
           /\ \A i, j \in 1..n : log[i].cmd.args[2] = log[j].cmd.args[2] => i = j
           /\ \A i \in 1..n : log[i].outcome # "exit0" => i = n
           /\ last.tag = "Ok" <=>
                 n = Cardinality(DOMAIN m) /\ \A i \in 1..n : log[i].outcome = "exit0"
           /\ last.tag = "CmdFailed" <=> n > 0 /\ log[n].outcome = "exit1"

\* the second of three entries fails: the third is never forwarded
C5_Witness ==
    /\ last.op = "reverse_port_forwarding"
    /\ Cardinality(DOMAIN config.reverse_port_forward) = 3
    /\ Len(last.log) = 2
    /\ last.tag = "CmdFailed"

(* ---- add_lib ---- *)
AddLibCalled == last.op = "add_lib"

\* the destination of the library staged by the last add_lib call
Destination == Join(host, config.build_dir, lib_path(host, last.path, last.target))

EndsWith(s, t) == Len(s) >= Len(t) /\ SubSeq(s, Len(s) - Len(t) + 1, Len(s)) = t

IsObjcopy(entry, flag) == entry.cmd.tool = "objcopy" /\ entry.cmd.args[1] = flag
IsDebugLink(entry) ==
    entry.cmd.tool = "objcopy" /\ StripPrefix(entry.cmd.args[1], S_add_gnu_debuglink) # None

\* C6: a successful add_lib under Split issues exactly three objcopy
\* invocations, in the order --strip-debug (source -> destination),
\* --only-keep-debug (source -> side file), --add-gnu-debuglink (on the
\* destination); under Strip exactly the first; under Default none, the
\* source being copied; and no add_lib call under Strip or Default ever
\* writes a side file or a debug link.
C6_PolicyArtifacts ==
    AddLibCalled =>
        LET log == last.log
        IN /\ last.tag = "Ok" /\ config.strip = "Split" =>
                /\ Len(log) = 3
                /\ \A i \in 1..3 : log[i].cmd.tool = "objcopy" /\ log[i].outcome = "exit0"
                /\ log[1].cmd.args = <<S_strip_debug, last.path, Destination>>
                /\ Len(log[2].cmd.args) = 3
                /\ log[2].cmd.args[1] = S_only_keep_debug
                /\ log[2].cmd.args[2] = last.path
                /\ log[2].cmd.args[3] # Destination
                /\ EndsWith(log[2].cmd.args[3], <<".">> \o S_dwarf)
                /\ Len(log[3].cmd.args) = 2
                /\ IsDebugLink(log[3])
                /\ log[3].cmd.args[2] = Destination
                /\ last.copied = None
           /\ last.tag = "Ok" /\ config.strip = "Strip" =>
                /\ Len(log) = 1
                /\ log[1].cmd.tool = "objcopy" /\ log[1].outcome = "exit0"
                /\ log[1].cmd.args = <<S_strip_debug, last.path, Destination>>
                /\ last.copied = None
           /\ last.tag = "Ok" /\ config.strip = "Default" =>
                /\ log = <<>>
                /\ last.copied = Some(<<last.path, Destination>>)
           /\ config.strip # "Split" =>
                \A i \in 1..Len(log) :
                    ~IsObjcopy(log[i], S_only_keep_debug) /\ ~IsDebugLink(log[i])

\* a library is split on a Windows host
C6_Witness ==
    /\ AddLibCalled
    /\ last.tag = "Ok"
    /\ config.strip = "Split"
    /\ host = "windows"
    /\ Len(last.log) = 3

\* the third objcopy invocation of the last add_lib call was issued
LinkIssued == AddLibCalled /\ Len(last.log) = 3 /\ IsDebugLink(last.log[3])

\* the reference handed to --add-gnu-debuglink=, and the side file written
\* by --only-keep-debug
LinkReference == StripPrefix(last.log[3].cmd.args[1], S_add_gnu_debuglink)[1]
SideFile == last.log[2].cmd.args[3]

\* C7 as stated: the debug-link reference is the base name of the side
\* file, with no directory in it.
C7_LinkIsBasename ==
    LinkIssued =>
        /\ LinkReference = FileName(host, SideFile)
        /\ \A i \in 1..Len(LinkReference) : ~IsSep(host, LinkReference[i])

\* C7, amended: the debug-link reference is the path of the side file as it
\* was handed to --only-keep-debug: it begins with the build directory and
\* ends in the side file's base name <stem of the source file name>.dwarf.
C7_LinkIsSideFilePath ==
    LinkIssued =>
        /\ LinkReference = SideFile
        /\ StripPrefix(LinkReference, config.build_dir \o <<MainSep(host)>>) # None
        /\ FileName(host, LinkReference)
              = FileStem(FileName(host, last.path)) \o <<".">> \o S_dwarf
        /\ FileName(host, LinkReference) # LinkReference

\* a library is split into an absolute build directory
C7_Witness ==
    /\ LinkIssued
    /\ last.tag = "Ok"
    /\ config.build_dir = BuildDirAbs

\* how many objcopy invocations the policy of the configuration asks for
Planned == IF config.strip = "Split" THEN 3 ELSE IF config.strip = "Strip" THEN 1 ELSE 0

\* C8: add_lib is fail-fast and leaves pending_libs untouched on error.  A
\* missing source gives PathNotFound and no invocation; an objcopy
\* invocation that exits non-zero is the last one of the call, which
\* returns CmdFailed; whatever the error, pending_libs is what it was
\* before the call, and a path is recorded only after every invocation
\* exited zero.
C8_FailFastUntouched ==
    AddLibCalled =>
        LET log == last.log
            e == last.env
            bad == {i \in 1..Planned : e.outs[i] # "exit0"}
        IN /\ ~e.exists <=> last.tag = "PathNotFound"
           /\ last.tag = "PathNotFound" => log = <<>>
           /\ \A i \in 1..Len(log) : log[i].outcome # "exit0" => i = Len(log)
           /\ e.exists /\ e.fs # "mkdir_err" /\ e.found /\ bad # {} /\ e.outs[Min(bad)] = "exit1"
                 => last.tag = "CmdFailed" /\ Len(log) = Min(bad)
           /\ last.tag = "CmdFailed" => Len(log) > 0 /\ log[Len(log)].outcome = "exit1"
           /\ last.tag # "Ok" => unaligned[last.id] = last.pending
           /\ last.tag = "Ok" =>
                 /\ Len(log) = Planned
                 /\ \A i \in 1..Len(log) : log[i].outcome = "exit0"

\* the second invocation of a split fails, with a library already pending
C8_Witness ==
    /\ AddLibCalled
    /\ last.tag = "CmdFailed"
    /\ Len(last.log) = 2
    /\ last.pending # {}
    /\ unaligned[last.id] = last.pending

\* the file arguments of the `aapt add` invocation of the last call
AddedFiles ==
    LET args == last.log[1].cmd.args
    IN SubSeq(args, 3 + Len(CompressionArgs(config)), Len(args))

\* C9: pending_libs holds one path per (target, file name) staged, however
\* often and from whichever directory it was staged: add_lib never removes
\* a path, adds none when the pair was staged before, and `aapt add` is
\* handed every path of the set exactly once.
C9_IdempotentSet ==
    /\ \A id \in DOMAIN unaligned : Cardinality(unaligned[id]) = Cardinality(added[id])
    /\ AddLibCalled => last.pending \subseteq unaligned[last.id]
    /\ last.op = "add_pending_libs_and_align" /\ last.log # <<>> =>
          /\ Len(AddedFiles) = Cardinality(last.pending)
          /\ {AddedFiles[i] : i \in 1..Len(AddedFiles)} = last.pending

\* the same file name is staged again, from another directory, and the set
\* stays as it was
C9_Witness ==
    /\ AddLibCalled
    /\ last.tag = "Ok"
    /\ last.path = PathA2
    /\ last.pending # {}
    /\ unaligned[last.id] = last.pending

\* the archive-internal path of a library, given the name it is recorded
\* under
ArchivePath(target, name) == S_lib \o <<"/">> \o android_abi(target) \o <<"/">> \o name

NoBackslash(s) == \A i \in 1..Len(s) : s[i] # "\\"

\* C10: every entry of pending_libs holds no backslash and is
\* lib/<abi>/<source file name>, on either host.
C10_ForwardSlashForm ==
    \A id \in DOMAIN unaligned : \A e \in unaligned[id] :
        /\ NoBackslash(e)
        /\ \E k \in added[id] : e = ArchivePath(k[1], k[2])

\* pending_libs after a successful add_lib of (path, target) under the
\* policy strip, everything else being as in the last add_lib call
RecordedUnder(strip, path, target) ==
    LET r == add_lib(host, [config EXCEPT !.strip = strip], last.pending, path, target,
                     FineEnv.exists, FineEnv.fs, FineEnv.found, FineEnv.outs)
    IN IF r.tag = "Ok" THEN Some(r.pending) ELSE None

\* C11: what a successful add_lib records does not depend on the policy,
\* nor on the directory of the source: the same call under each of the
\* three policies, and the call for every source of the same file name and
\* target, leave the same pending_libs as the call made.
C11_PolicyIndependent ==
    AddLibCalled /\ last.tag = "Ok" =>
        \A strip \in StripConfig :
            /\ RecordedUnder(strip, last.path, last.target) = Some(unaligned[last.id])
            /\ \A lib \in Libs :
                  lib[2] = last.target /\ FileName(host, lib[1]) = FileName(host, last.path)
                     => RecordedUnder(strip, lib[1], lib[2]) = Some(unaligned[last.id])

\* a library is split and recorded, its file name also being that of a
\* source in another directory
C11_Witness ==
    /\ AddLibCalled
    /\ last.tag = "Ok"
    /\ config.strip = "Split"
    /\ last.path = PathA2
    /\ unaligned[last.id] # last.pending

(* ---- add_runtime_libs ---- *)
RuntimeLibsCalled == last.op = "add_runtime_libs"

\* whether a file name ends in ".so"
IsSharedObject(name) == Len(name) > 3 /\ EndsWith(name, <<".">> \o S_so)

\* the entries of the directory listed by the last add_runtime_libs call
Listed == last.env.dir[1]

\* the entry at which the walk over Listed ends early (0: it does not): the
\* first that cannot be read, or that is a shared object and cannot be staged
StopsAt ==
    LET bad == {i \in 1..Len(Listed) :
                   \/ ~Listed[i].read
                   \/ IsSharedObject(Listed[i].name) /\ Listed[i].env # FineEnv}
    IN IF bad = {} THEN 0 ELSE Min(bad)

\* the shared objects listed before the walk ends
Selected ==
    {Listed[i].name : i \in {i \in 1..Len(Listed) :
        /\ StopsAt = 0 \/ i < StopsAt
        /\ IsSharedObject(Listed[i].name)}}

\* what the walk adds to pending_libs: the shared objects selected and,
\* when there are any, their dependencies
ExpectedEntries ==
    {ArchivePath(last.target, name) : name \in Selected}
    \cup (IF Selected = {} THEN {}
          ELSE {ArchivePath(last.target, FileName(host, last.env.deps[i])) :
                   i \in 1..Len(last.env.deps)})

\* C12: add_runtime_libs fails with IoPathError, carrying the path
\* root/<abi>, exactly when read_dir fails, and then pending_libs is as it
\* was; otherwise it stages the entries whose extension is "so" (with their
\* dependencies) and no other entry, up to the first entry whose staging
\* fails: the error of that entry is returned and what was staged before
\* it stays in pending_libs.
C12_RuntimeLibs ==
    RuntimeLibsCalled =>
        /\ last.env.dir = None <=> last.tag = "IoPathError"
        /\ last.env.dir = None =>
              /\ last.errpath = Some(last.path \o <<"/">> \o android_abi(last.target))
              /\ unaligned[last.id] = last.pending
        /\ last.env.dir # None =>
              /\ unaligned[last.id] = last.pending \cup ExpectedEntries
              /\ last.tag = "Ok" <=> StopsAt = 0
              /\ StopsAt # 0 /\ ~Listed[StopsAt].read => last.tag = "IoError"
              /\ StopsAt # 0 /\ Listed[StopsAt].read =>
                    last.tag = (IF config.strip = "Default" THEN "IoError" ELSE "CmdFailed")
              /\ \A i \in 1..Len(Listed) :
                    ~IsSharedObject(Listed[i].name) =>
                        ArchivePath(last.target, Listed[i].name) \notin unaligned[last.id]

\* the second of two libraries cannot be staged: the first stays staged
C12_Witness ==
    /\ RuntimeLibsCalled
    /\ last.env.dir # None
    /\ StopsAt = 2
    /\ Listed[2].read
    /\ last.tag # "Ok"
    /\ last.pending = {}
    /\ unaligned[last.id] # {}

(* ---- add_pending_libs_and_align ---- *)
AlignCalled == last.op = "add_pending_libs_and_align"

\* the two container paths, written out
UnalignedPath == config.build_dir \o <<MainSep(host)>> \o config.apk_name \o S_unaligned_apk
FinalPath == config.build_dir \o <<MainSep(host)>> \o config.apk_name \o S_dot_apk

\* C13: add_pending_libs_and_align invokes `aapt add` once, on the
\* unaligned container, with every entry of pending_libs once and nothing
\* else (also when pending_libs is empty); it invokes `zipalign -f -v 4
\* <unaligned> <final>` once, and only after `aapt add` exited zero; when
\* `aapt add` exits non-zero zipalign is not invoked and CmdFailed is
\* returned.
C13_AddThenAlign ==
    AlignCalled =>
        LET log == last.log
            n == Len(log)
        IN /\ n <= 2
           /\ n = 0 => last.tag = "ToolNotFound"
           /\ n >= 1 =>
                 /\ log[1].cmd.tool = "aapt"
                 /\ log[1].cmd.args[1] = S_add
                 /\ log[1].cmd.args[2 + Len(CompressionArgs(config))] = UnalignedPath
                 /\ Len(AddedFiles) = Cardinality(last.pending)
                 /\ \A e \in last.pending : \E i \in 1..Len(AddedFiles) : AddedFiles[i] = e
                 /\ \A i \in 1..Len(AddedFiles) : AddedFiles[i] \in last.pending
           /\ n = 2 =>
                 /\ log[1].outcome = "exit0"
                 /\ log[2].cmd.tool = "zipalign"
                 /\ log[2].cmd.args = <<S_f, S_v, S_4, UnalignedPath, FinalPath>>
           /\ n >= 1 /\ log[1].outcome = "exit1" => n = 1 /\ last.tag = "CmdFailed"
           /\ n = 1 /\ log[1].outcome = "exit0" => last.tag = "ToolNotFound"
           /\ last.tag = "Ok" <=> n = 2 /\ log[2].outcome = "exit0"
           /\ last.tag = "CmdFailed" <=> n >= 1 /\ log[n].outcome = "exit1"

\* two libraries are added in one invocation and the container is aligned
C13_Witness ==
    /\ AlignCalled
    /\ Cardinality(last.pending) >= 2
    /\ Len(last.log) = 2
    /\ last.tag = "Ok"

(* ---- fail-fast ---- *)
\* the operations that run one external tool after the other and return a
\* handle or a value
ToolOps == {"create_apk", "add_pending_libs_and_align", "sign", "install", "start", "uidof"}

\* whether a tool of the call exited non-zero
ToolFailed(call) == \E i \in 1..Len(call.log) : call.log[i].outcome = "exit1"

\* the handles that were consumed by a call that failed
Dead(h) == (h.aligns > 0 /\ ~h.aligned) \/ (h.signs > 0 /\ ~h.signed)

\* what a call of which a tool exits non-zero does
FailFastStep ==
    last'.op \in ToolOps /\ ToolFailed(last') =>
        /\ \A i \in 1..Len(last'.log) : last'.log[i].outcome = "exit1" => i = Len(last'.log)
        /\ last'.tag = "CmdFailed"
        /\ last'.val = <<>>
        /\ apks' = apks
        /\ hist' # hist => Len(hist') = Len(hist)
        /\ last'.op = "create_apk" => unaligned' = unaligned /\ unsigned' = unsigned
        /\ last'.op = "add_pending_libs_and_align" =>
              /\ last'.id \in DOMAIN unaligned
              /\ unaligned' = Consume(unaligned, last'.id)
              /\ unsigned' = unsigned
        /\ last'.op = "sign" =>
              /\ last'.id \in unsigned
              /\ unsigned' = unsigned \ {last'.id}
              /\ unaligned' = unaligned
        /\ last'.op \in {"install", "start", "uidof"} =>
              unaligned' = unaligned /\ unsigned' = unsigned /\ hist' = hist

\* a handle consumed by a failed call is never aligned or signed later
NoRetryStep ==
    \A id \in Ids : Dead(hist[id]) =>
        /\ hist'[id] = hist[id]
        /\ id \notin DOMAIN unaligned'
        /\ id \notin unsigned'

\* C14: the transitions are fail-fast and nothing is retried.  When a tool
\* invoked by create_apk, add_pending_libs_and_align, sign, install, start
\* or uidof exits non-zero, the call invokes nothing after it, returns
\* CmdFailed and yields no handle and no value (whatever adb printed for
\* uidof); a failed add_pending_libs_and_align or sign has consumed its
\* handle, for which no tool is ever run again: Signed is reached only by
\* the handle of another create_apk.
C14_FailFastNoRetry == [][FailFastStep /\ NoRetryStep]_vars

\* apksigner failed for one handle, and a handle created later was signed
C14_Witness ==
    \E i, j \in Ids :
        /\ i < j
        /\ hist[i].signs = 1 /\ ~hist[i].signed
        /\ hist[j].signed
        /\ last.op = "uidof" /\ last.tag = "CmdFailed" /\ last.stdout # <<>>

(* ---- processes ---- *)
\* C15: at most one process of a tool is running at any time: a call starts
\* a command only when the process of the command before it is over, and
\* returns (so that the next call can be made) only when no process of it
\* is running.
C15_OneProcess ==
    /\ Cardinality(Running(last)) <= 1
    /\ Idle => Running(last) = {}
    /\ \A i \in Running(last) : \A j \in 1..(i - 1) : j <= last.exited

\* the second object copy of a split is running, the first being over
C15_Witness ==
    /\ last.op = "add_lib"
    /\ Len(last.log) = 3
    /\ Running(last) = {2}
    /\ ~last.returned

(* ---- container paths ---- *)
\* the invocation of tool in the last call (the first of them)
Invocation(tool) ==
    last.log[CHOOSE i \in 1..Len(last.log) : last.log[i].cmd.tool = tool].cmd

\* C16: the container paths are the same throughout.  The path `aapt
\* package -F` writes, the path `aapt add` is given and the input of
\* zipalign are <build_dir>/<apk_name>-unaligned.apk; the output of
\* zipalign, the path apksigner signs, the path of every Apk and the path
\* `adb install -r` is given are <build_dir>/<apk_name>.apk; and the two
\* differ.
C16_ContainerPaths ==
    /\ UnalignedPath # FinalPath
    /\ \A a \in apks : a.path = FinalPath
    /\ last.op = "create_apk" /\ Invoked(last.log, "aapt") =>
          /\ Invocation("aapt").args[3] = S_F
          /\ Invocation("aapt").args[4] = UnalignedPath
    /\ AlignCalled /\ Invoked(last.log, "aapt") =>
          Invocation("aapt").args[2 + Len(CompressionArgs(config))] = UnalignedPath
    /\ AlignCalled /\ Invoked(last.log, "zipalign") =>
          /\ Invocation("zipalign").args[4] = UnalignedPath
          /\ Invocation("zipalign").args[5] = FinalPath
    /\ last.op = "sign" /\ Invoked(last.log, "apksigner") =>
          /\ Len(Invocation("apksigner").args) = 6
          /\ Invocation("apksigner").args[6] = FinalPath
    /\ last.op = "install" /\ Invoked(last.log, "adb") =>
          Invocation("adb").args = <<S_install, S_r, FinalPath>>

\* the package built in an absolute directory on Windows is installed
C16_Witness ==
    /\ last.op = "install"
    /\ last.tag = "Ok"
    /\ host = "windows"
    /\ config.build_dir = BuildDirAbs
    /\ \E id \in Ids : hist[id].created /\ hist[id].aligned /\ hist[id].signed

====
